---- MODULE Spec2Model ----
(***************************************************************************)
(* Model of server/whisper-service/transcribe.py: a command-line wrapper   *)
(* that loads a Whisper model once per process, transcribes one audio file *)
(* and prints one JSON result line.                                        *)
(*                                                                         *)
(* A Python str is a sequence of pieces; a piece is either one character   *)
(* ("a", " ", "\n", "\"", "\\") or a literal chunk of ordinary characters  *)
(* taken verbatim from the source ("Audio file not found: ").  A dict is   *)
(* a function whose DOMAIN is its key set.                                 *)
(***************************************************************************)
EXTENDS Integers, Sequences, FiniteSets, TLC

\* ---------------------------------------------------------------- bounds
MaxPathLen == 2
MaxTextLen == 3
MaxSegments == 2
MaxCalls == 3

\* ------------------------------------------------------------ string data
RECURSIVE SeqsUpTo(_, _)
SeqsUpTo(S, n) ==
    IF n = 0 THEN {<<>>}
    ELSE LET shorter == SeqsUpTo(S, n - 1)
         IN shorter \cup {Append(s, c) : s \in {t \in shorter : Len(t) = n - 1}, c \in S}

Range(s) == {s[i] : i \in 1..Len(s)}

\* characters str.strip() removes when called without an argument
Whitespace == {" ", "\n", "\t"}

PathChars == {"a", "\\", "\""}
TextChars == {"a", " ", "\n"}

Paths == SeqsUpTo(PathChars, MaxPathLen)
Texts == SeqsUpTo(TextChars, MaxTextLen)

\* ------------------------------------------------------- Python built-ins
None == [tag |-> "None"]

RECURSIVE lstrip(_)
lstrip(s) ==
    IF s # <<>> /\ s[1] \in Whitespace THEN lstrip(Tail(s)) ELSE s

RECURSIVE rstrip(_)
rstrip(s) ==
    IF s # <<>> /\ s[Len(s)] \in Whitespace
    THEN rstrip(SubSeq(s, 1, Len(s) - 1))
    ELSE s

\* result['text'].strip()
strip(s) == rstrip(lstrip(s))

\* dict.get(key, default) and os.getenv(key, default)
dict_get(d, key, default) == IF key \in DOMAIN d THEN d[key] ELSE default

\* str(e) of an exception built with zero or one argument
str_exc(e) == IF Len(e.args) = 0 THEN <<>> ELSE e.args[1]

\* classes the clause `except Exception` catches
ExceptionClasses == {"Exception", "RuntimeError", "AssertionError", "KeyError",
                     "TypeError", "FileNotFoundError", "MemoryError"}

except_Exception_narrow(e) == e.cls = "FileNotFoundError"

except_Exception(e) == e.cls \in ExceptionClasses

\* ------------------------------------------------------------------ JSON
\* json.dumps escapes the characters that may not stand in a string literal
json_escape_char(c) ==
    CASE c = "\"" -> <<"\\", "\"">>
      [] c = "\\" -> <<"\\", "\\">>
      [] c = "\n" -> <<"\\", "n">>
      [] c = "\t" -> <<"\\", "t">>
      [] OTHER -> <<c>>

RECURSIVE json_escape(_)
json_escape(s) ==
    IF s = <<>> THEN <<>> ELSE json_escape_char(s[1]) \o json_escape(Tail(s))

json_string(s) == <<"\"">> \o json_escape(s) \o <<"\"">>

Digits == <<"0", "1", "2", "3", "4", "5", "6", "7", "8", "9">>

\* the decimal text of a non-negative int
RECURSIVE json_int(_)
json_int(n) ==
    IF n < 10 THEN <<Digits[n + 1]>>
    ELSE json_int(n \div 10) \o <<Digits[(n % 10) + 1]>>

json_value(key, v) ==
    CASE key = "success" -> (IF v THEN <<"true">> ELSE <<"false">>)
      [] key = "segments" -> json_int(v)
      [] OTHER -> json_string(v)

\* the keys of the result dicts, in insertion order
KeyOrder == <<"success", "text", "language", "segments", "error">>

RECURSIVE json_members(_, _)
json_members(d, keys) ==
    IF keys = <<>> THEN <<>>
    ELSE json_string(<<keys[1]>>) \o <<": ">> \o json_value(keys[1], d[keys[1]])
         \o (IF Len(keys) > 1 THEN <<", ">> ELSE <<>>)
         \o json_members(d, Tail(keys))

\* json.dumps(d): one line of text
json_dumps(d) ==
    <<"{">> \o json_members(d, SelectSeq(KeyOrder, LAMBDA k : k \in DOMAIN d)) \o <<"}">>

\* ------------------------------------------- reading a JSON line back
json_unescape_char(c) ==
    CASE c = "n" -> "\n"
      [] c = "t" -> "\t"
      [] OTHER -> c

RECURSIVE json_unescape(_)
json_unescape(s) ==
    IF s = <<>> THEN <<>>
    ELSE IF s[1] = "\\" /\ Len(s) >= 2
         THEN <<json_unescape_char(s[2])>> \o json_unescape(SubSeq(s, 3, Len(s)))
         ELSE <<s[1]>> \o json_unescape(Tail(s))

\* index of the quote that closes the string literal whose body starts at t[i]
RECURSIVE json_string_end(_, _)
json_string_end(t, i) ==
    IF i > Len(t) THEN i
    ELSE IF t[i] = "\\" THEN json_string_end(t, i + 2)
    ELSE IF t[i] = "\"" THEN i
    ELSE json_string_end(t, i + 1)

DigitValue(c) == CHOOSE v \in 0..9 : Digits[v + 1] = c
IsDigit(c) == \E v \in 0..9 : Digits[v + 1] = c

\* the number whose digits start at t[i], and the index after it
RECURSIVE json_read_int(_, _, _)
json_read_int(t, i, acc) ==
    IF i <= Len(t) /\ IsDigit(t[i])
    THEN json_read_int(t, i + 1, acc * 10 + DigitValue(t[i]))
    ELSE [value |-> acc, next |-> i]

\* the value that starts at t[i], and the index after it
json_read_value(t, i) ==
    IF t[i] = "\""
    THEN LET e == json_string_end(t, i + 1)
         IN [value |-> json_unescape(SubSeq(t, i + 1, e - 1)), next |-> e + 1]
    ELSE IF t[i] \in {"true", "false"}
         THEN [value |-> (t[i] = "true"), next |-> i + 1]
         ELSE json_read_int(t, i, 0)

\* the <<key, value>> pairs of the members that start at t[i]
RECURSIVE json_read_members(_, _)
json_read_members(t, i) ==
    IF i > Len(t) \/ t[i] # "\"" THEN <<>>
    ELSE LET e == json_string_end(t, i + 1)
             key == json_unescape(SubSeq(t, i + 1, e - 1))
             v == json_read_value(t, e + 2)
         IN <<<<key[1], v.value>>>>
            \o (IF v.next <= Len(t) /\ t[v.next] = ", "
                THEN json_read_members(t, v.next + 1)
                ELSE <<>>)

IsJsonObject(line) == Len(line) >= 2 /\ line[1] = "{" /\ line[Len(line)] = "}"

\* the dict a JSON parser reads from one line
json_loads(line) ==
    LET ms == json_read_members(line, 2)
    IN [k \in {ms[j][1] : j \in 1..Len(ms)} |->
          (CHOOSE m \in Range(ms) : m[1] = k)[2]]

\* ------------------------------------------------------ the two streams
ProgressStreamStdout == "stdout"

\* file=sys.stderr of the two progress messages
ProgressStream == "stderr"

\* print(line, file=stream) on io = [stdout, stderr]
print_to(stream, line, io) ==
    IF stream = "stdout"
    THEN [io EXCEPT !.stdout = Append(@, line)]
    ELSE [io EXCEPT !.stderr = Append(@, line)]

LoadingMsg(model_name) == <<"Loading Whisper ">> \o model_name \o <<" model...">>
LoadedMsg == <<"Model loaded successfully">>

\* ------------------------------------------------ the external collaborator
ValidModels == {<<"tiny">>, <<"base">>}
ModelNames == ValidModels \cup {<<"bogus">>, <<>>}

EmptyEnv == [k \in {} |-> <<>>]
Environs == {EmptyEnv} \cup {[k \in {"WHISPER_MODEL"} |-> v] : v \in ModelNames}

Raise(cls, args) == [raised |-> TRUE, exc |-> [cls |-> cls, args |-> args]]
Return(v) == [raised |-> FALSE, value |-> v]

Handle(name) == [tag |-> "Whisper", name |-> name]

\* whisper.load_model(name): fails for an unknown variant, and for a known one
\* that cannot be fetched or read
whisper_load_model(name, available) ==
    IF name \notin ValidModels
    THEN Raise("RuntimeError", <<<<"Model ">> \o name \o <<" not found">>>>)
    ELSE IF ~available
         THEN Raise("RuntimeError", <<<<"Model checksum does not match">>>>)
         ELSE Return(Handle(name))

SegmentLists == {[i \in 1..n |-> [id |-> i - 1]] : n \in 0..MaxSegments}
Languages == {<<"en">>, <<"fr">>}

\* what model.transcribe() may return: a dict that always has 'text' and may
\* lack 'language' and 'segments'
ModelOutputs ==
    [text : Texts, language : Languages, segments : SegmentLists]
    \cup [text : Texts, segments : SegmentLists]
    \cup [text : Texts, language : Languages]
    \cup [text : Texts]

\* what model.transcribe() may raise
InferFaults ==
    { [cls |-> "RuntimeError", args |-> <<<<"Failed to load audio">>>>],
      [cls |-> "RuntimeError", args |-> <<<<"bad ", "\"", "a", "\"", "\n">>>>],
      [cls |-> "AssertionError", args |-> <<>>] }

InferOutcomes == {Return(o) : o \in ModelOutputs} \cup {[raised |-> TRUE, exc |-> e] : e \in InferFaults}

\* ------------------------------------------------------------------ state
VARIABLES
    sys_argv,     \* sys.argv: the program name, then the arguments
    fs,           \* the paths that exist on the filesystem
    environ,      \* os.environ, restricted to WHISPER_MODEL
    MODEL,        \* the module-level memoized handle
    pc,           \* position of the process
    audio_path,   \* main's local
    model,        \* transcribe_audio's local
    result,       \* the dict transcribe_audio returns, main's local
    stdout,       \* lines written to standard output
    stderr,       \* lines written to standard error
    exit_code,    \* <<>> while running, <<c>> once the process has exited
    trace,        \* the steps taken so far, in order
    env_reads,    \* number of os.getenv calls
    ext_loads,    \* number of whisper.load_model calls
    ok_loads,     \* number of whisper.load_model calls that returned a handle
    load_calls,   \* number of load_model() calls
    last_ret,     \* outcome of the latest load_model() call
    ext_out       \* outcome of the model.transcribe() call

vars == <<sys_argv, fs, environ, MODEL, pc, audio_path, model, result, stdout,
          stderr, exit_code, trace, env_reads, ext_loads, ok_loads, load_calls,
          last_ret, ext_out>>

ProgramName == <<"transcribe.py">>

\* argument vectors: none, one path, or a path and an ignored extra argument
ArgVectors ==
    {<<ProgramName>>} \cup {<<ProgramName, p>> : p \in Paths}
    \cup {<<ProgramName, p, <<"a">>>> : p \in {<<"a">>, <<"\\">>}}

\* filesystems: the empty path never exists
FileSystems == {{}, {<<"a">>}, {<<"a">>, <<"\"">>}}

\* os.path.exists(p)
os_path_exists(p) == p \in fs

\* ------------------------------------------------------------ load_model
\* load_model() without the `if MODEL is None` test
load_model_no_memo(M, env, io, available) ==
    LET model_name == dict_get(env, "WHISPER_MODEL", <<"tiny">>)
        io1 == print_to(ProgressStream, LoadingMsg(model_name), io)
        ext == whisper_load_model(model_name, available)
    IN IF ext.raised
       THEN [MODEL |-> M, io |-> io1, ret |-> ext,
             env_reads |-> 1, ext_loads |-> 1, ok_loads |-> 0]
       ELSE [MODEL |-> ext.value,
             io |-> print_to(ProgressStream, LoadedMsg, io1),
             ret |-> Return(ext.value),
             env_reads |-> 1, ext_loads |-> 1, ok_loads |-> 1]

\* load_model(): the effect on MODEL and the streams, the value returned or
\* the fault raised, and the number of getenv and external load calls made
load_model(M, env, io, available) ==
    IF M = None
    THEN LET model_name == dict_get(env, "WHISPER_MODEL", <<"tiny">>)
             io1 == print_to(ProgressStream, LoadingMsg(model_name), io)
             ext == whisper_load_model(model_name, available)
         IN IF ext.raised
            THEN [MODEL |-> M, io |-> io1, ret |-> ext,
                  env_reads |-> 1, ext_loads |-> 1, ok_loads |-> 0]
            ELSE [MODEL |-> ext.value,
                  io |-> print_to(ProgressStream, LoadedMsg, io1),
                  ret |-> Return(ext.value),
                  env_reads |-> 1, ext_loads |-> 1, ok_loads |-> 1]
    ELSE [MODEL |-> M, io |-> io, ret |-> Return(M),
          env_reads |-> 0, ext_loads |-> 0, ok_loads |-> 0]

\* the part of a load_model() call common to every caller
DoLoadModel(r) ==
    /\ MODEL' = r.MODEL
    /\ stdout' = r.io.stdout
    /\ stderr' = r.io.stderr
    /\ env_reads' = env_reads + r.env_reads
    /\ ext_loads' = ext_loads + r.ext_loads
    /\ ok_loads' = ok_loads + r.ok_loads
    /\ load_calls' = load_calls + 1
    /\ last_ret' = r.ret

\* ------------------------------------------------------ transcribe_audio
SuccessResultLstrip(out) ==
    [success |-> TRUE,
     text |-> lstrip(out.text),
     language |-> dict_get(out, "language", <<"en">>),
     segments |-> Len(dict_get(out, "segments", <<>>))]

\* the dict of the try block's return
SuccessResult(out) ==
    [success |-> TRUE,
     text |-> strip(out.text),
     language |-> dict_get(out, "language", <<"en">>),
     segments |-> Len(dict_get(out, "segments", <<>>))]

\* the dict of the except block's return
FailureResult(e) == [success |-> FALSE, error |-> str_exc(e)]

\* an exception no handler catches ends the process with status 1
Uncaught(e) ==
    /\ pc' = "crashed"
    /\ exit_code' = <<1>>
    /\ result' = result

\* model = load_model(), inside the try block
TranscribeLoad ==
    /\ pc = "load"
    /\ \E available \in BOOLEAN :
         LET r == load_model(MODEL, environ, [stdout |-> stdout, stderr |-> stderr],
                             available)
         IN /\ DoLoadModel(r)
            /\ IF r.ret.raised
               THEN /\ model' = model
                    /\ IF except_Exception(r.ret.exc)
                       THEN /\ result' = FailureResult(r.ret.exc)
                            /\ pc' = "print"
                            /\ exit_code' = exit_code
                       ELSE Uncaught(r.ret.exc)
               ELSE /\ model' = r.ret.value
                    /\ pc' = "infer"
                    /\ UNCHANGED <<result, exit_code>>
    /\ trace' = Append(trace, "load")
    /\ UNCHANGED <<sys_argv, fs, environ, audio_path, ext_out>>

\* result = model.transcribe(audio_path, ...) and the dict built from it
TranscribeInfer ==
    /\ pc = "infer"
    /\ \E out \in InferOutcomes :
         /\ ext_out' = out
         /\ IF out.raised
            THEN IF except_Exception(out.exc)
                 THEN /\ result' = FailureResult(out.exc)
                      /\ pc' = "print"
                      /\ exit_code' = exit_code
                 ELSE Uncaught(out.exc)
            ELSE /\ result' = SuccessResult(out.value)
                 /\ pc' = "print"
                 /\ exit_code' = exit_code
    /\ trace' = Append(trace, "infer")
    /\ UNCHANGED <<sys_argv, fs, environ, MODEL, audio_path, model, stdout, stderr,
                   env_reads, ext_loads, ok_loads, load_calls, last_ret>>

\* ------------------------------------------------------------------ main
UsageResultShort == [success |-> FALSE, error |-> <<"No audio file">>]

UsageResult == [success |-> FALSE, error |-> <<"No audio file provided">>]

NotFoundResultNoPath(p) == [success |-> FALSE, error |-> <<"Audio file not found: ">>]

NotFoundResult(p) == [success |-> FALSE, error |-> <<"Audio file not found: ">> \o p]

ExitCodeZero(r) == 0

\* 0 if result['success'] else 1
ExitCodeOf(r) == IF r.success THEN 0 ELSE 1

Unloaded == <<env_reads, ext_loads, ok_loads, load_calls, last_ret, MODEL>>

\* len(sys.argv) < 2: print the usage error, sys.exit(1)
MainNoArgs ==
    /\ pc = "main"
    /\ Len(sys_argv) < 2
    /\ stdout' = Append(stdout, json_dumps(UsageResult))
    /\ exit_code' = <<1>>
    /\ pc' = "done"
    /\ trace' = trace \o <<"argcheck", "output", "exit">>
    /\ UNCHANGED <<sys_argv, fs, environ, audio_path, model, result, stderr, ext_out>>
    /\ UNCHANGED Unloaded

\* audio_path = sys.argv[1] with the model loaded eagerly at startup
MainArgsEagerLoad ==
    /\ pc = "main"
    /\ ~(Len(sys_argv) < 2)
    /\ audio_path' = sys_argv[2]
    /\ \E available \in BOOLEAN :
         DoLoadModel(load_model(MODEL, environ,
                                [stdout |-> stdout, stderr |-> stderr], available))
    /\ pc' = "exists"
    /\ trace' = trace \o <<"argcheck", "load">>
    /\ UNCHANGED <<sys_argv, fs, environ, model, result, exit_code, ext_out>>

\* audio_path = sys.argv[1]
MainArgs ==
    /\ pc = "main"
    /\ ~(Len(sys_argv) < 2)
    /\ audio_path' = sys_argv[2]
    /\ pc' = "exists"
    /\ trace' = Append(trace, "argcheck")
    /\ UNCHANGED <<sys_argv, fs, environ, model, result, stdout, stderr, exit_code,
                   ext_out>>
    /\ UNCHANGED Unloaded

\* the file-not-found branch without its sys.exit(1)
MainNotFoundNoExit ==
    /\ pc = "exists"
    /\ ~os_path_exists(audio_path)
    /\ stdout' = Append(stdout, json_dumps(NotFoundResult(audio_path)))
    /\ pc' = "load"
    /\ trace' = trace \o <<"existscheck", "output">>
    /\ UNCHANGED <<sys_argv, fs, environ, audio_path, model, result, stderr,
                   exit_code, ext_out>>
    /\ UNCHANGED Unloaded

\* not os.path.exists(audio_path): print the not-found error, sys.exit(1)
MainNotFound ==
    /\ pc = "exists"
    /\ ~os_path_exists(audio_path)
    /\ stdout' = Append(stdout, json_dumps(NotFoundResult(audio_path)))
    /\ exit_code' = <<1>>
    /\ pc' = "done"
    /\ trace' = trace \o <<"existscheck", "output", "exit">>
    /\ UNCHANGED <<sys_argv, fs, environ, audio_path, model, result, stderr, ext_out>>
    /\ UNCHANGED Unloaded

\* os.path.exists(audio_path): go on to transcribe_audio(audio_path)
MainFound ==
    /\ pc = "exists"
    /\ os_path_exists(audio_path)
    /\ pc' = "load"
    /\ trace' = Append(trace, "existscheck")
    /\ UNCHANGED <<sys_argv, fs, environ, audio_path, model, result, stdout, stderr,
                   exit_code, ext_out>>
    /\ UNCHANGED Unloaded

\* print(json.dumps(result))
MainPrint ==
    /\ pc = "print"
    /\ stdout' = Append(stdout, json_dumps(result))
    /\ pc' = "exit"
    /\ trace' = Append(trace, "output")
    /\ UNCHANGED <<sys_argv, fs, environ, audio_path, model, result, stderr,
                   exit_code, ext_out>>
    /\ UNCHANGED Unloaded

\* sys.exit(0 if result['success'] else 1)
MainExit ==
    /\ pc = "exit"
    /\ exit_code' = <<ExitCodeOf(result)>>
    /\ pc' = "done"
    /\ trace' = Append(trace, "exit")
    /\ UNCHANGED <<sys_argv, fs, environ, audio_path, model, result, stdout, stderr,
                   ext_out>>
    /\ UNCHANGED Unloaded

\* the state of a fresh interpreter after the module body has run
Start ==
    /\ MODEL = None
    /\ audio_path = <<>>
    /\ model = None
    /\ result = None
    /\ stdout = <<>>
    /\ stderr = <<>>
    /\ exit_code = <<>>
    /\ trace = <<>>
    /\ env_reads = 0
    /\ ext_loads = 0
    /\ ok_loads = 0
    /\ load_calls = 0
    /\ last_ret = None
    /\ ext_out = None

Init ==
    /\ sys_argv \in ArgVectors
    /\ fs \in FileSystems
    /\ environ \in Environs
    /\ pc = "main"
    /\ Start

Next ==
    \/ MainNoArgs
    \/ MainArgs
    \/ MainNotFound
    \/ MainFound
    \/ TranscribeLoad
    \/ TranscribeInfer
    \/ MainPrint
    \/ MainExit

Spec == Init /\ [][Next]_vars

\* ------------------------------------- the module imported as a library
\* a caller invokes load_model()
LibLoadModel ==
    /\ pc = "lib"
    /\ load_calls < MaxCalls
    /\ \E available \in BOOLEAN :
         DoLoadModel(load_model(MODEL, environ,
                                [stdout |-> stdout, stderr |-> stderr], available))
    /\ trace' = Append(trace, "load")
    /\ UNCHANGED <<sys_argv, fs, environ, pc, audio_path, model, result, exit_code,
                   ext_out>>

\* the caller changes WHISPER_MODEL between calls
LibSetEnv ==
    /\ pc = "lib"
    /\ \E e \in Environs : e # environ /\ environ' = e
    /\ UNCHANGED <<sys_argv, fs, MODEL, pc, audio_path, model, result, stdout,
                   stderr, exit_code, trace, env_reads, ext_loads, ok_loads,
                   load_calls, last_ret, ext_out>>

InitLib ==
    /\ sys_argv = <<ProgramName>>
    /\ fs = {}
    /\ environ \in Environs
    /\ pc = "lib"
    /\ Start

NextLib ==
    \/ LibLoadModel
    \/ LibSetEnv

SpecLib == InitLib /\ [][NextLib]_vars

\* ================================================================ claims
Exited == exit_code # <<>>
HasArg == Len(sys_argv) >= 2
LoadFaulted == last_ret # None /\ last_ret.raised
InferFaulted == ext_out # None /\ ext_out.raised
InferReturned == ext_out # None /\ ~ext_out.raised

\* C1: every run that has exited has written exactly one JSON result line to
\* standard output, and no run ever holds two or more lines there.
C1_OneResultLine ==
    /\ Len(stdout) <= 1
    /\ Exited =>
         /\ Len(stdout) = 1
         /\ IsJsonObject(stdout[1])
         /\ "success" \in DOMAIN json_loads(stdout[1])
         /\ json_dumps(json_loads(stdout[1])) = stdout[1]

C1_Witness ==
    /\ pc = "done"
    /\ InferFaulted
    /\ Len(stdout) = 1

\* C2: in a finished run the exit code is 0 exactly when the printed result has
\* success = true; a missing argument, a missing file, a load fault and an
\* inference fault all end with exit code 1 and success = false.
C2_ExitCodeIffSuccess ==
    pc = "done" =>
      /\ exit_code \in {<<0>>, <<1>>}
      /\ (exit_code = <<0>>) <=> json_loads(stdout[1]).success
      /\ (~HasArg \/ ~os_path_exists(audio_path) \/ LoadFaulted \/ InferFaulted)
           => (exit_code = <<1>> /\ ~json_loads(stdout[1]).success)

C2_Witness ==
    /\ pc = "done"
    /\ exit_code = <<0>>
    /\ json_loads(stdout[1]).success

\* C3: with no argument after the program name the run prints exactly
\* {success: false, error: "No audio file provided"}, exits with code 1, and
\* neither checks a path nor calls transcribe_audio.
C3_NoArgument ==
    ~HasArg =>
      /\ "existscheck" \notin Range(trace)
      /\ "load" \notin Range(trace)
      /\ load_calls = 0
      /\ result = None
      /\ pc = "done" =>
           /\ Len(stdout) = 1
           /\ json_loads(stdout[1]) =
                [success |-> FALSE, error |-> <<"No audio file provided">>]
           /\ exit_code = <<1>>

C3_Witness ==
    /\ ~HasArg
    /\ pc = "done"
    /\ Len(stdout) = 1

\* C4: when the first argument p names no existing file the run prints
\* {success: false, error: "Audio file not found: " + p}, p unchanged, and
\* exits with code 1.
C4_NotFound ==
    (pc = "done" /\ HasArg /\ ~os_path_exists(sys_argv[2])) =>
      /\ Len(stdout) = 1
      /\ json_loads(stdout[1]) =
           [success |-> FALSE, error |-> <<"Audio file not found: ">> \o sys_argv[2]]
      /\ exit_code = <<1>>

C4_Witness ==
    /\ pc = "done"
    /\ HasArg
    /\ ~os_path_exists(sys_argv[2])
    /\ "\\" \in Range(sys_argv[2])
    /\ Len(stdout) = 1

\* C5: any fault of the external capability is caught and reported as
\* {success: false, error: <non-empty string>} with exit code 1, and none
\* crashes the process.
C5_FaultReportedNonEmpty ==
    /\ pc # "crashed"
    /\ (pc = "done" /\ (LoadFaulted \/ InferFaulted)) =>
         /\ Len(stdout) = 1
         /\ ~json_loads(stdout[1]).success
         /\ json_loads(stdout[1]).error # <<>>
         /\ exit_code = <<1>>

\* C6: a load fault raised inside load_model() is caught by transcribe_audio and
\* reported as a result with success = false and exit code 1; it never leaves
\* main() uncaught.
C6_LoadFaultReported ==
    /\ pc # "crashed"
    /\ LoadFaulted =>
         /\ pc \in {"print", "exit", "done"}
         /\ result = [success |-> FALSE, error |-> str_exc(last_ret.exc)]
         /\ ext_out = None
         /\ pc = "done" =>
              /\ Len(stdout) = 1
              /\ json_loads(stdout[1]) = result
              /\ exit_code = <<1>>

C6_Witness ==
    /\ pc = "done"
    /\ LoadFaulted
    /\ "WHISPER_MODEL" \in DOMAIN environ
    /\ environ["WHISPER_MODEL"] \notin ValidModels
    /\ Len(stdout) = 1

\* the handle is set exactly when one external load has succeeded
C7_AtMostOneLoad ==
    /\ ok_loads <= 1
    /\ (MODEL = None) <=> (ok_loads = 0)
    /\ (MODEL # None /\ last_ret # None /\ ~last_ret.raised) => last_ret.value = MODEL

\* a step taken with a cached handle keeps it and does no load work
C7_CachedHandleKept ==
    [][MODEL # None =>
         /\ MODEL' = MODEL
         /\ env_reads' = env_reads
         /\ ext_loads' = ext_loads
         /\ stderr' = stderr
         /\ stdout' = stdout
         /\ load_calls' # load_calls => last_ret' = Return(MODEL)]_vars

\* C7: over any sequence of load_model() calls the external load succeeds at
\* most once; once a handle is cached every later call returns that handle
\* without reading the environment, loading again or writing a message.
C7_LoadedAtMostOnce == []C7_AtMostOneLoad /\ C7_CachedHandleKept

C7_Witness ==
    /\ MODEL # None
    /\ load_calls = MaxCalls
    /\ ext_loads = 1
    /\ last_ret = Return(MODEL)
    /\ dict_get(environ, "WHISPER_MODEL", <<"tiny">>) # MODEL.name

ProgressMessages == {LoadingMsg(n) : n \in ModelNames} \cup {LoadedMsg}

\* C8: progress messages go only to standard error and the only thing ever
\* written to standard output is the JSON result.
C8_StreamsSeparated ==
    /\ \A i \in 1..Len(stdout) :
         /\ stdout[i] \notin ProgressMessages
         /\ IsJsonObject(stdout[i])
    /\ \A i \in 1..Len(stderr) :
         /\ stderr[i] \in ProgressMessages
         /\ ~IsJsonObject(stderr[i])
    /\ ext_loads > 0 => (Len(stderr) >= 1 /\ stderr[1] \in ProgressMessages)
    /\ ok_loads > 0 => stderr[Len(stderr)] = LoadedMsg

C8_Witness ==
    /\ pc = "done"
    /\ Len(stderr) = 2
    /\ Len(stdout) = 1

\* t is s with its leading and trailing whitespace removed
IsStripped(t, s) ==
    \E i \in 1..(Len(s) + 1), j \in 0..Len(s) :
      /\ t = SubSeq(s, i, j)
      /\ \A k \in 1..(i - 1) : s[k] \in Whitespace
      /\ \A k \in (j + 1)..Len(s) : s[k] \in Whitespace
      /\ t # <<>> => (t[1] \notin Whitespace /\ t[Len(t)] \notin Whitespace)

\* C9: when inference returns, the result has success = true, the model's text
\* without leading and trailing whitespace, the model's language or "en" when
\* it has none, and the number of the model's segments or 0 when it has none.
C9_SuccessVariant ==
    InferReturned =>
      LET out == ext_out.value
      IN /\ DOMAIN result = {"success", "text", "language", "segments"}
         /\ result.success = TRUE
         /\ IsStripped(result.text, out.text)
         /\ result.language =
              (IF "language" \in DOMAIN out THEN out.language ELSE <<"en">>)
         /\ result.segments =
              (IF "segments" \in DOMAIN out THEN Len(out.segments) ELSE 0)
         /\ result.segments \in Nat

C9_Witness ==
    /\ InferReturned
    /\ Len(ext_out.value.text) = MaxTextLen
    /\ Len(result.text) = 1
    /\ "language" \notin DOMAIN ext_out.value
    /\ "segments" \notin DOMAIN ext_out.value

StepRank(step) ==
    CASE step = "argcheck" -> 1
      [] step = "existscheck" -> 2
      [] step = "load" -> 3
      [] step = "infer" -> 4
      [] step = "output" -> 5
      [] step = "exit" -> 6

====
